---- MODULE Spec2Model ----
(***************************************************************************)
(* Model of the ArUco marker HTTP service (src/lambda.py).                 *)
(*                                                                         *)
(* One module-level ArucoGenerator holds the dictionary (aruco_dict) that  *)
(* every handler first overwrites with set_dictionary and then reads in    *)
(* generate_single_marker.  The handlers are `async def` coroutines with   *)
(* no await in their bodies, so under the event loop each handler runs to  *)
(* completion: Spec has one action per handler.  SpecConc splits the       *)
(* handlers at the calls into the generator, which is the granularity at   *)
(* which the generator is used when it is invoked concurrently.            *)
(*                                                                         *)
(* A cv2 dictionary object is modelled by the name of its variant, an      *)
(* image by its shape and by what determines its pixels (the dictionary    *)
(* that drew it, the identifier, the border thickness, the white padding). *)
(***************************************************************************)
EXTENDS Integers, Sequences, FiniteSets, TLC

\* ---------------------------------------------------------------- bounds
\* how far past each declared limit the enumerated request fields go
Overshoot == 1
\* number of requests that can be in flight at once in SpecConc
MaxInFlight == 2

\* ------------------------------------------------------ program constants
MarkerIdMin == 0
MarkerIdMax == 49
SizeMin == 50
SizeMax == 1000
SizeDefault == 200
MarginMin == 0
MarginMax == 100
MarginDefault == 10
BorderBitsMin == 1
BorderBitsMax == 3
BorderBitsDefault == 1
StartIdDefault == 0
CountMin == 1
CountMax == 20
CountDefault == 5
\* `if marker_id > 49: continue`
BatchMaxId == 49
\* DICT_4X4_50 .. DICT_7X7_50: each codebook has 50 symbols
DictSymbols == 50
\* copyMakeBorder(..., value=255)
White == 255
DictionaryDefault == "4x4"

dict_mapping_without_7x7 == {"4x4", "5x5", "6x6"}

\* keys of dict_mapping in set_dictionary
dict_mapping == {"4x4", "5x5", "6x6", "7x7"}

\* ArucoGenerator.__init__: DICT_4X4_50
InitialDict == "4x4"

\* ------------------------------------------------------- request inputs
Dicts == {"4x4", "5x5", "6x6", "7x7", "9x9"}
Over(lo, hi) == {lo - k : k \in 1..Overshoot} \cup {hi + k : k \in 1..Overshoot}
Ids == {0, 49} \cup Over(MarkerIdMin, MarkerIdMax)
Sizes == {SizeMin, SizeMax} \cup Over(SizeMin, SizeMax)
Margins == {MarginMin, MarginMax} \cup Over(MarginMin, MarginMax)
Borders == {2, 3} \cup Over(BorderBitsMin, BorderBitsMax)
StartIds == {31, 45, 60} \cup Over(MarkerIdMin, MarkerIdMax)
Counts == {CountDefault, 10, 20} \cup Over(CountMin, CountMax)

\* a request body; a field the client omits takes the default of its Field
Req(ep, id, cnt, sz, mg, bb, d) ==
    [endpoint |-> ep, marker_id |-> id, count |-> cnt, size |-> sz,
     margin |-> mg, border_bits |-> bb, dictionary |-> d]

\* single-marker requests: every identifier with every dictionary, and each
\* rendering parameter moved off its default
SingleBodies(ep) ==
    {Req(ep, id, 1, SizeDefault, MarginDefault, BorderBitsDefault, d) :
        id \in Ids, d \in Dicts}
    \cup {Req(ep, 7, 1, sz, MarginDefault, BorderBitsDefault, DictionaryDefault) :
            sz \in Sizes}
    \cup {Req(ep, 7, 1, SizeDefault, mg, BorderBitsDefault, "5x5") : mg \in Margins}
    \cup {Req(ep, 7, 1, SizeDefault, MarginDefault, bb, d) :
            bb \in Borders, d \in {"6x6"}}

\* batch requests; marker_id holds start_id
BatchBodies ==
    {Req("POST /generate-multiple", s, c, SizeDefault, MarginDefault,
         BorderBitsDefault, DictionaryDefault) : s \in StartIds, c \in Counts}
    \cup {Req("POST /generate-multiple", StartIdDefault, CountDefault, SizeDefault,
              MarginDefault, BorderBitsDefault, d) : d \in Dicts}
    \cup {Req("POST /generate-multiple", 45, 10, SizeMin, mg, bb, d) :
            mg \in {MarginMin}, bb \in {BorderBitsMax, BorderBitsMax + 1},
            d \in {"7x7", "9x9"}}

NoRequest == Req("none", 0, 0, 0, 0, 0, "")

\* requests in flight together in SpecConc; all of them pass validation
ConcBodies ==
    {Req("POST /generate", 7, 1, SizeDefault, MarginDefault, BorderBitsDefault, d) :
        d \in {"4x4", "5x5", "9x9"}}
    \cup {Req("GET /generate", 7, 1, SizeDefault, MarginMin, BorderBitsDefault, "6x6"),
          Req("POST /generate-multiple", 48, 3, SizeDefault, MarginDefault,
              BorderBitsDefault, "7x7")}

\* ------------------------------------------------------------ validation
MarkerRequest_id_le_50(r) ==
    /\ r.marker_id >= MarkerIdMin /\ r.marker_id <= MarkerIdMax + 1
    /\ r.size >= SizeMin /\ r.size <= SizeMax
    /\ r.margin >= MarginMin /\ r.margin <= MarginMax
    /\ r.border_bits >= BorderBitsMin /\ r.border_bits <= BorderBitsMax

\* MarkerRequest: the Field bounds FastAPI enforces before the handler runs
MarkerRequest(r) ==
    /\ r.marker_id >= MarkerIdMin /\ r.marker_id <= MarkerIdMax
    /\ r.size >= SizeMin /\ r.size <= SizeMax
    /\ r.margin >= MarginMin /\ r.margin <= MarginMax
    /\ r.border_bits >= BorderBitsMin /\ r.border_bits <= BorderBitsMax

MultipleMarkersRequest_no_start_le(r) ==
    /\ r.marker_id >= MarkerIdMin
    /\ r.count >= CountMin /\ r.count <= CountMax
    /\ r.size >= SizeMin /\ r.size <= SizeMax
    /\ r.margin >= MarginMin /\ r.margin <= MarginMax
    /\ r.border_bits >= BorderBitsMin /\ r.border_bits <= BorderBitsMax

\* MultipleMarkersRequest
MultipleMarkersRequest(r) ==
    /\ r.marker_id >= MarkerIdMin /\ r.marker_id <= MarkerIdMax
    /\ r.count >= CountMin /\ r.count <= CountMax
    /\ r.size >= SizeMin /\ r.size <= SizeMax
    /\ r.margin >= MarginMin /\ r.margin <= MarginMax
    /\ r.border_bits >= BorderBitsMin /\ r.border_bits <= BorderBitsMax

generate_marker_get_Query_border_le_4(r) ==
    /\ r.marker_id >= MarkerIdMin /\ r.marker_id <= MarkerIdMax
    /\ r.size >= SizeMin /\ r.size <= SizeMax
    /\ r.margin >= MarginMin /\ r.margin <= MarginMax
    /\ r.border_bits >= BorderBitsMin /\ r.border_bits <= BorderBitsMax + 1

\* the Query bounds of GET /generate
generate_marker_get_Query(r) ==
    /\ r.marker_id >= MarkerIdMin /\ r.marker_id <= MarkerIdMax
    /\ r.size >= SizeMin /\ r.size <= SizeMax
    /\ r.margin >= MarginMin /\ r.margin <= MarginMax
    /\ r.border_bits >= BorderBitsMin /\ r.border_bits <= BorderBitsMax

\* ------------------------------------------------------------- generator
\* the default variant is taken to be loaded already and is not reloaded
set_dictionary_default_not_reloaded(self_dict, dict_type) ==
    IF dict_type \in dict_mapping
    THEN [ret |-> TRUE,
          aruco_dict |-> IF dict_type = "4x4" THEN self_dict ELSE dict_type]
    ELSE [ret |-> FALSE, aruco_dict |-> self_dict]

\* ArucoGenerator.set_dictionary: the return value and the new aruco_dict
set_dictionary(self_dict, dict_type) ==
    IF dict_type \in dict_mapping
    THEN [ret |-> TRUE, aruco_dict |-> dict_type]
    ELSE [ret |-> FALSE, aruco_dict |-> self_dict]

\* cv2.aruco.generateImageMarker(self.aruco_dict, marker_id, size, borderBits):
\* a size x size image of symbol marker_id of the dictionary; an identifier
\* the codebook does not have raises
generateImageMarker(dict, marker_id, size, border_bits) ==
    IF marker_id >= 0 /\ marker_id < DictSymbols
    THEN [raised |-> FALSE,
          img |-> [height |-> size, width |-> size, dictionary |-> dict,
                   marker_id |-> marker_id, border_bits |-> border_bits,
                   pad |-> 0, pad_value |-> White]]
    ELSE [raised |-> TRUE,
          img |-> [height |-> 0, width |-> 0, dictionary |-> dict,
                   marker_id |-> marker_id, border_bits |-> border_bits,
                   pad |-> 0, pad_value |-> White]]

\* pads the top and the left edge only
copyMakeBorder_top_left_only(img, top, bottom, left, right, value) ==
    [img EXCEPT !.height = @ + top, !.width = @ + left,
                !.pad = top, !.pad_value = value]

\* cv2.copyMakeBorder(img, top, bottom, left, right, BORDER_CONSTANT, value)
copyMakeBorder(img, top, bottom, left, right, value) ==
    [img EXCEPT !.height = @ + top + bottom, !.width = @ + left + right,
                !.pad = top, !.pad_value = value]

\* ArucoGenerator.generate_single_marker
ArucoGenerator_generate_single_marker(self_dict, marker_id, size, margin, border_bits) ==
    LET m == generateImageMarker(self_dict, marker_id, size, border_bits)
    IN  IF m.raised THEN m
        ELSE IF margin > 0
             THEN [m EXCEPT !.img = copyMakeBorder(m.img, margin, margin, margin,
                                                    margin, White)]
             ELSE m

\* image_to_base64: PNG container, then base64 text
image_to_base64(image) == <<"base64", <<"PNG", image>>>>

\* ------------------------------------------------------------- responses
Response(status, kind, success, markers, total, dict, detail) ==
    [status |-> status, kind |-> kind, success |-> success, markers |-> markers,
     total_generated |-> total, dictionary |-> dict, detail |-> detail]

NoResponse == Response(0, "none", FALSE, <<>>, 0, "", "")

\* the framework's answer to a body that violates a Field bound
RequestValidationError == Response(422, "RequestValidationError", FALSE, <<>>, 0, "", "field")

\* one entry of renders: a call of generator.generate_single_marker
RenderCall(self_dict, marker_id, size, margin, border_bits) ==
    LET m == ArucoGenerator_generate_single_marker(self_dict, marker_id, size,
                                                   margin, border_bits)
    IN  [aruco_dict |-> self_dict, marker_id |-> marker_id, size |-> size,
         margin |-> margin, border_bits |-> border_bits,
         raised |-> m.raised, img |-> m.img]

\* `except Exception as e: raise HTTPException(status_code=500, ...)`:
\* every exception raised in the try block, the HTTPException(400) of the
\* dictionary check included, leaves the handler as a 500
except_Exception(exc_status, what) ==
    Response(500, "HTTPException", FALSE, <<>>, 0, "", what)

\* the try block of generate_single_marker (POST) and generate_marker_get:
\* the new aruco_dict, the calls made and the response
single_handler(self_dict, r, kind) ==
    LET sd == set_dictionary(self_dict, r.dictionary)
        call == RenderCall(sd.aruco_dict, r.marker_id, r.size, r.margin, r.border_bits)
    IN  IF ~sd.ret
        THEN [aruco_dict |-> sd.aruco_dict, set_ret |-> "False", renders |-> <<>>,
              response |-> except_Exception(400, "400: dicionario nao suportado")]
        ELSE IF call.raised
        THEN [aruco_dict |-> sd.aruco_dict, set_ret |-> "True", renders |-> <<call>>,
              response |-> except_Exception(0, "cv2.error")]
        ELSE [aruco_dict |-> sd.aruco_dict, set_ret |-> "True", renders |-> <<call>>,
              response |->
                Response(200, kind, TRUE,
                         <<[marker_id |-> r.marker_id,
                            image_base64 |-> image_to_base64(call.img),
                            size |-> r.size, margin |-> r.margin]>>,
                         0, r.dictionary, "gerada com sucesso")]

skip_marker_id_ge(marker_id) == marker_id >= BatchMaxId

\* `if marker_id > 49: continue`
skip_marker_id(marker_id) == marker_id > BatchMaxId

\* the loop `for i in range(request.count)` of generate_multiple_markers,
\* from iteration i on
RECURSIVE batch_loop(_, _, _, _, _, _)
batch_loop(self_dict, r, i, markers, generated_count, calls) ==
    IF i >= r.count
    THEN [raised |-> FALSE, markers |-> markers,
          generated_count |-> generated_count, renders |-> calls]
    ELSE LET marker_id == r.marker_id + i
             call == RenderCall(self_dict, marker_id, r.size, r.margin, r.border_bits)
         IN  IF skip_marker_id(marker_id)
             THEN batch_loop(self_dict, r, i + 1, markers, generated_count, calls)
             ELSE IF call.raised
             THEN [raised |-> TRUE, markers |-> markers,
                   generated_count |-> generated_count,
                   renders |-> Append(calls, call)]
             ELSE batch_loop(self_dict, r, i + 1,
                             Append(markers,
                                    [marker_id |-> marker_id,
                                     image_base64 |-> image_to_base64(call.img),
                                     size |-> r.size, margin |-> r.margin]),
                             generated_count + 1, Append(calls, call))

\* the try block of generate_multiple_markers
batch_handler(self_dict, r) ==
    LET sd == set_dictionary(self_dict, r.dictionary)
        loop == batch_loop(sd.aruco_dict, r, 0, <<>>, 0, <<>>)
    IN  IF ~sd.ret
        THEN [aruco_dict |-> sd.aruco_dict, set_ret |-> "False", renders |-> <<>>,
              response |-> except_Exception(400, "400: dicionario nao suportado")]
        ELSE IF loop.raised
        THEN [aruco_dict |-> sd.aruco_dict, set_ret |-> "True",
              renders |-> loop.renders,
              response |-> except_Exception(0, "cv2.error")]
        ELSE [aruco_dict |-> sd.aruco_dict, set_ret |-> "True",
              renders |-> loop.renders,
              response |->
                Response(200, "MultipleMarkersResponse", TRUE, loop.markers,
                         loop.generated_count, "", "geradas com sucesso")]

\* ----------------------------------------------------------------- state
VARIABLES
    aruco_dict,   \* generator.aruco_dict, the module-level generator's dictionary
    request,      \* the request processed last
    response,     \* its response
    renders,      \* the generate_single_marker calls it made
    set_ret,      \* what its set_dictionary call returned ("none": not called)
    remembered,   \* an earlier request that passed validation, its response, its age
    pc,           \* SpecConc: position of each in-flight request
    creq,         \* SpecConc: its request
    ci,           \* SpecConc: its loop index
    crenders      \* SpecConc: the generate_single_marker calls it made

seqvars == <<request, response, renders, set_ret, remembered>>
concvars == <<pc, creq, ci, crenders>>
vars == <<aruco_dict, request, response, renders, set_ret, remembered,
          pc, creq, ci, crenders>>

InFlight == 1..MaxInFlight

Init ==
    /\ aruco_dict = InitialDict
    /\ request = NoRequest
    /\ response = NoResponse
    /\ renders = <<>>
    /\ set_ret = "none"
    /\ remembered = [request |-> NoRequest, response |-> NoResponse, age |-> 0]
    /\ pc = [p \in InFlight |-> "idle"]
    /\ creq = [p \in InFlight |-> NoRequest]
    /\ ci = [p \in InFlight |-> 0]
    /\ crenders = [p \in InFlight |-> <<>>]

\* age of the remembered pair: 0 recorded by the last request, 1 by the one
\* before it, 2 by an older one
Older(m) == [m EXCEPT !.age = IF @ < 2 THEN @ + 1 ELSE 2]

\* a request is received, validated by the framework and, when it passes,
\* handled to completion
Serve(r, valid, out) ==
    /\ request' = r
    /\ IF valid
       THEN /\ aruco_dict' = out.aruco_dict
            /\ response' = out.response
            /\ renders' = out.renders
            /\ set_ret' = out.set_ret
       ELSE /\ aruco_dict' = aruco_dict
            /\ response' = RequestValidationError
            /\ renders' = <<>>
            /\ set_ret' = "none"
    /\ \/ valid /\ remembered' = [request |-> r, response |-> response', age |-> 0]
       \/ remembered.request # NoRequest /\ remembered' = Older(remembered)
       \/ remembered.request = NoRequest /\ remembered' = remembered
    /\ UNCHANGED concvars

\* POST /generate
generate_single_marker ==
    \E r \in SingleBodies("POST /generate") :
        Serve(r, MarkerRequest(r), single_handler(aruco_dict, r, "MarkerResponse"))

\* GET /generate
generate_marker_get ==
    \E r \in SingleBodies("GET /generate") :
        Serve(r, generate_marker_get_Query(r), single_handler(aruco_dict, r, "dict"))

\* POST /generate-multiple
generate_multiple_markers ==
    \E r \in BatchBodies :
        Serve(r, MultipleMarkersRequest(r), batch_handler(aruco_dict, r))

Next ==
    \/ generate_single_marker
    \/ generate_marker_get
    \/ generate_multiple_markers

Spec == Init /\ [][Next]_vars

\* ------------------------------------------------- interleaved handlers
\* the framework hands a validated request to its handler
c_receive(p) ==
    /\ pc[p] = "idle"
    /\ \E r \in ConcBodies :
        /\ creq' = [creq EXCEPT ![p] = r]
        /\ pc' = [pc EXCEPT ![p] = "set_dictionary"]
    /\ ci' = [ci EXCEPT ![p] = 0]
    /\ crenders' = [crenders EXCEPT ![p] = <<>>]
    /\ UNCHANGED <<aruco_dict, seqvars>>

\* `if not generator.set_dictionary(request.dictionary): raise ...`
c_set_dictionary(p) ==
    /\ pc[p] = "set_dictionary"
    /\ LET sd == set_dictionary(aruco_dict, creq[p].dictionary)
       IN  /\ aruco_dict' = sd.aruco_dict
           /\ pc' = [pc EXCEPT ![p] = IF sd.ret THEN "render" ELSE "done"]
    /\ UNCHANGED <<creq, ci, crenders, seqvars>>

\* one generator.generate_single_marker call: the only one of a single
\* request, or one iteration of the batch loop
c_render(p) ==
    /\ pc[p] = "render"
    /\ LET r == creq[p]
           marker_id == r.marker_id + ci[p]
           call == RenderCall(aruco_dict, marker_id, r.size, r.margin, r.border_bits)
       IN  IF r.endpoint = "POST /generate-multiple"
           THEN IF ci[p] >= r.count
                THEN /\ pc' = [pc EXCEPT ![p] = "done"]
                     /\ UNCHANGED <<ci, crenders>>
                ELSE /\ ci' = [ci EXCEPT ![p] = @ + 1]
                     /\ crenders' = IF skip_marker_id(marker_id) THEN crenders
                                    ELSE [crenders EXCEPT ![p] = Append(@, call)]
                     /\ pc' = [pc EXCEPT ![p] = IF ~skip_marker_id(marker_id) /\ call.raised
                                                THEN "done" ELSE "render"]
           ELSE /\ crenders' = [crenders EXCEPT ![p] = Append(@, call)]
                /\ pc' = [pc EXCEPT ![p] = "done"]
                /\ UNCHANGED ci
    /\ UNCHANGED <<aruco_dict, creq, seqvars>>

\* the response leaves; the slot is free for the next request
c_respond(p) ==
    /\ pc[p] = "done"
    /\ pc' = [pc EXCEPT ![p] = "idle"]
    /\ creq' = [creq EXCEPT ![p] = NoRequest]
    /\ ci' = [ci EXCEPT ![p] = 0]
    /\ crenders' = [crenders EXCEPT ![p] = <<>>]
    /\ UNCHANGED <<aruco_dict, seqvars>>

NextConc ==
    \/ \E p \in InFlight : c_receive(p)
    \/ \E p \in InFlight : c_set_dictionary(p)
    \/ \E p \in InFlight : c_render(p)
    \/ \E p \in InFlight : c_respond(p)

SpecConc == Init /\ [][NextConc]_vars

\* ---------------------------------------------------------------- claims
Recognized == {"4x4", "5x5", "6x6", "7x7"}
IsSingle(r) == r.endpoint \in {"POST /generate", "GET /generate"}
IsBatch(r) == r.endpoint = "POST /generate-multiple"
IdOk(r) == r.marker_id \in 0..49
CountOk(r) == IsBatch(r) => r.count \in 1..20
SizeOk(r) == r.size \in 50..1000
MarginOk(r) == r.margin \in 0..100
BorderOk(r) == r.border_bits \in 1..3
FieldsInRange(r) == IdOk(r) /\ CountOk(r) /\ SizeOk(r) /\ MarginOk(r) /\ BorderOk(r)
ClientError(resp) == resp.status \in 400..499
Min(a, b) == IF a < b THEN a ELSE b
MarkerIds(markers) == [k \in 1..Len(markers) |-> markers[k].marker_id]

\* C1: on every endpoint a request whose dictionary is not one of the four
\* variants and whose other fields are in range ends in a 4xx response, and
\* nothing is rendered for it.
C1_UnknownDictionaryIsClientError ==
    (request.endpoint # "none" /\ request.dictionary \notin Recognized
        /\ FieldsInRange(request))
    => (ClientError(response) /\ renders = <<>>)

\* C2: a batch with start_id in 0..49, count in 1..20 and a recognized
\* dictionary succeeds with exactly the identifiers start_id ..
\* min(start_id+count-1, 49), ascending, each once, and total_generated is
\* the length of that list, min(count, 50-start_id).
C2_BatchIdsClamped ==
    (IsBatch(request) /\ FieldsInRange(request) /\ request.dictionary \in Recognized)
    => LET n == Min(request.count, 50 - request.marker_id)
       IN  /\ response.status = 200 /\ response.success
           /\ MarkerIds(response.markers) = [k \in 1..n |-> request.marker_id + k - 1]
           /\ response.total_generated = n
           /\ response.total_generated = Len(response.markers)

C2_Witness ==
    /\ IsBatch(request) /\ request.marker_id = 45 /\ request.count = 10
    /\ request.dictionary \in Recognized
    /\ response.success /\ response.total_generated = 5
    /\ MarkerIds(response.markers) = <<45, 46, 47, 48, 49>>

\* C3 as stated: a batch whose start_id is above 49 (count, dictionary and the
\* other fields in range) is a normal success with no markers and
\* total_generated = 0.
C3_OutOfRangeStartSucceedsEmpty ==
    (IsBatch(request) /\ request.marker_id > 49 /\ CountOk(request) /\ SizeOk(request)
        /\ MarginOk(request) /\ BorderOk(request) /\ request.dictionary \in Recognized)
    => (response.status = 200 /\ response.success /\ response.markers = <<>>
        /\ response.total_generated = 0)

\* C3 amended: a batch whose start_id is above 49 is rejected by validation
\* with a client error; its handler does not run, nothing is rendered and no
\* success response is produced.
C3_OutOfRangeStartRejected ==
    (IsBatch(request) /\ request.marker_id > 49)
    => (response.status = 422 /\ ~response.success /\ response.markers = <<>>
        /\ renders = <<>> /\ set_ret = "none")

C3_Witness ==
    /\ IsBatch(request) /\ request.marker_id = 60 /\ request.count = 5
    /\ request.dictionary \in Recognized
    /\ response.status = 422

\* C4: a single-generation request (POST or GET) whose identifier is outside
\* 0..49 gets a client error with every dictionary, and the renderer is not
\* invoked for it.
C4_SingleIdOutOfRangeRejected ==
    (IsSingle(request) /\ ~IdOk(request))
    => (ClientError(response) /\ renders = <<>> /\ set_ret = "none")

C4_Witness ==
    /\ request.endpoint = "GET /generate" /\ request.marker_id = 50
    /\ request.dictionary = "7x7" /\ ClientError(response)
    /\ renders = <<>>

\* C5: every image generate_single_marker returns is square with side
\* size + 2*margin; with margin = 0 nothing is padded and the side is size.
C5_ImageSide ==
    \A k \in 1..Len(renders) :
        ~renders[k].raised =>
            /\ renders[k].img.height = renders[k].size + 2 * renders[k].margin
            /\ renders[k].img.width = renders[k].size + 2 * renders[k].margin
            /\ renders[k].margin = 0 =>
                (renders[k].img.pad = 0 /\ renders[k].img.height = renders[k].size)

C5_Witness ==
    /\ Len(renders) > 0 /\ ~renders[1].raised /\ renders[1].margin = 100
    /\ renders[1].img.height = renders[1].size + 200
    /\ remembered.response.success /\ remembered.request.margin = 0

\* C6 as stated: every border thickness in 1..4 is accepted: with the other
\* fields in range and a recognized dictionary the request is rendered and
\* answered with success.
C6_BorderUpTo4Accepted ==
    (request.endpoint # "none" /\ request.border_bits \in 1..4 /\ IdOk(request)
        /\ CountOk(request) /\ SizeOk(request) /\ MarginOk(request)
        /\ request.dictionary \in Recognized)
    => (response.status = 200 /\ response.success)

\* C6 amended: every border thickness in 1..3 is accepted by the single and
\* batch operations (rendered with that thickness, answered with success);
\* border_bits = 4 is rejected by validation with a client error and
\* nothing is rendered.
C6_BorderUpTo3Accepted ==
    (request.endpoint # "none" /\ IdOk(request) /\ CountOk(request) /\ SizeOk(request)
        /\ MarginOk(request) /\ request.dictionary \in Recognized)
    => /\ request.border_bits \in 1..3 =>
            /\ response.status = 200 /\ response.success
            /\ \A k \in 1..Len(renders) :
                renders[k].img.border_bits = request.border_bits
       /\ request.border_bits = 4 =>
            (response.status = 422 /\ ~response.success /\ renders = <<>>)

C6_Witness ==
    /\ request.endpoint = "GET /generate" /\ request.border_bits = 4
    /\ request.dictionary \in Recognized /\ response.status = 422
    /\ remembered.request.border_bits = 3 /\ remembered.response.success

\* C7: two requests with identical fields, all of them within the declared
\* bounds, get identical responses, whatever was processed before or between
\* them.
C7_SameRequestSameResponse ==
    remembered.request = request => remembered.response = response

C7_Witness ==
    /\ remembered.request = request /\ remembered.age = 2
    /\ request.dictionary = "4x4" /\ response.success
    /\ remembered.response = response

\* C8: no request changes state that outlives it: after a request the
\* generator's aruco_dict is what it was before the request.
C8_RequestLeavesDictionary == [][aruco_dict' = aruco_dict]_vars

C10_LastRecognizedRequestWins ==
    [][aruco_dict' = IF request'.dictionary \in Recognized
                     THEN request'.dictionary ELSE aruco_dict]_vars

\* C10 amended: set_dictionary is called exactly for the requests that pass
\* field validation; it returns True exactly for the four variants and then
\* aruco_dict is that variant, otherwise aruco_dict is unchanged.  So the
\* generator's dictionary is the variant named by the most recent request
\* that passed validation and carried a recognized dictionary string, 4x4
\* before any.
C10_LastHandledRecognizedRequestWins ==
    [][/\ (set_ret' = "none") <=> ~FieldsInRange(request')
       /\ (set_ret' = "True") <=>
            (FieldsInRange(request') /\ request'.dictionary \in Recognized)
       /\ aruco_dict' = IF FieldsInRange(request') /\ request'.dictionary \in Recognized
                        THEN request'.dictionary ELSE aruco_dict]_vars

C10_Witness ==
    /\ set_ret = "none" /\ request.dictionary \in Recognized
    /\ request.dictionary # aruco_dict /\ aruco_dict # "4x4"
    /\ remembered.response.success
    /\ remembered.request.dictionary = aruco_dict

====
